---- MODULE Spec2Model ----
(***************************************************************************)
(* The three selector scripts of the Flutter plugin:                       *)
(*   skills/database-storage/scripts/storage_selector.py                   *)
(*   skills/performance/scripts/perf_analyzer.py                           *)
(*   skills/state-management/scripts/state_selector.py                     *)
(* Each defines a zero-argument function returning a dict display and,     *)
(* under `if __name__ == "__main__"`, prints json.dumps(<call>, indent=2). *)
(*                                                                         *)
(* A Python str is modelled as the sequence of its characters (each a      *)
(* one-character string), so that serialisation and parsing work on the    *)
(* actual text.  Dicts and lists are objects on a heap, addressed by       *)
(* reference, so that aliasing between returned tables is observable.      *)
(***************************************************************************)
EXTENDS Integers, Sequences, FiniteSets, TLC

VARIABLES
    unit,      \* which script this process runs or imports
    name,      \* the module's __name__
    argv,      \* command-line arguments of a direct run
    env,       \* environment of a direct run
    pc,        \* position of the process
    heap,      \* the process's dict and list objects, by address
    returned,  \* one record per selector call: the reference and the value at return
    mutated,   \* indices of returned tables their caller has mutated
    nmut,      \* number of caller mutations so far
    stdout,    \* characters written to standard output by this process
    prints,    \* number of print() calls executed
    exitcode,  \* exit status, -1 while running
    prev       \* the previous direct run: its unit and its standard output

vars == <<unit, name, argv, env, pc, heap, returned, mutated, nmut,
          stdout, prints, exitcode, prev>>

\* Most selector calls an importing program makes in one process.
MaxCalls == 3
\* Most mutations callers make to the tables they hold, in one process.
MaxMutations == 1

Units == {"storage", "perf", "state"}
Argvs == {<<>>, <<"--indent", "4">>}
Envs == {"default", "PYTHONHASHSEED=1"}

ModuleName(u) ==
    CASE u = "storage" -> "storage_selector"
      [] u = "perf" -> "perf_analyzer"
      [] u = "state" -> "state_selector"

(***************************************************************************)
(* The three literals.                                                     *)
(***************************************************************************)
Pair(k, items) == [key |-> k, val |-> items]

storage_select_typo ==
    << Pair(<<"l","o","c","a","l">>,
            << <<"s","h","a","r","e","d","_","p","r","e","f","s">>,
               <<"h","i","v","e">>,
               <<"s","q","l","i","t","e">> >>),
       Pair(<<"c","l","o","u","d">>,
            << <<"f","i","r","e","s","t","o","r","e">>,
               <<"s","u","p","a","b","a","s","e">> >>) >>

storage_select ==
    << Pair(<<"l","o","c","a","l">>,
            << <<"s","h","a","r","e","d","_","p","r","e","f","s">>,
               <<"h","i","v","e">>,
               <<"s","q","f","l","i","t","e">> >>),
       Pair(<<"c","l","o","u","d">>,
            << <<"f","i","r","e","s","t","o","r","e">>,
               <<"s","u","p","a","b","a","s","e">> >>) >>

perf_analyze_reordered ==
    << Pair(<<"m","e","t","r","i","c","s">>,
            << <<"f","p","s">>,
               <<"s","t","a","r","t","u","p">>,
               <<"m","e","m","o","r","y">>,
               <<"s","i","z","e">> >>),
       Pair(<<"t","o","o","l","s">>,
            << <<"d","e","v","t","o","o","l","s">>,
               <<"f","i","r","e","b","a","s","e","_","p","e","r","f">> >>) >>

perf_analyze_no_tools ==
    << Pair(<<"m","e","t","r","i","c","s">>,
            << <<"f","p","s">>,
               <<"m","e","m","o","r","y">>,
               <<"s","t","a","r","t","u","p">>,
               <<"s","i","z","e">> >>),
       Pair(<<"t","o","o","l","s">>, << >>) >>

perf_analyze ==
    << Pair(<<"m","e","t","r","i","c","s">>,
            << <<"f","p","s">>,
               <<"m","e","m","o","r","y">>,
               <<"s","t","a","r","t","u","p">>,
               <<"s","i","z","e">> >>),
       Pair(<<"t","o","o","l","s">>,
            << <<"d","e","v","t","o","o","l","s">>,
               <<"f","i","r","e","b","a","s","e","_","p","e","r","f">> >>) >>

state_select_keys_swapped ==
    << Pair(<<"s","i","m","p","l","e">>,
            << <<"s","e","t","S","t","a","t","e">>,
               <<"V","a","l","u","e","N","o","t","i","f","i","e","r">> >>),
       Pair(<<"c","o","m","p","l","e","x">>,
            << <<"B","L","o","C">>,
               <<"R","e","d","u","x">> >>),
       Pair(<<"m","e","d","i","u","m">>,
            << <<"P","r","o","v","i","d","e","r">>,
               <<"R","i","v","e","r","p","o","d">> >>) >>

state_select ==
    << Pair(<<"s","i","m","p","l","e">>,
            << <<"s","e","t","S","t","a","t","e">>,
               <<"V","a","l","u","e","N","o","t","i","f","i","e","r">> >>),
       Pair(<<"m","e","d","i","u","m">>,
            << <<"P","r","o","v","i","d","e","r">>,
               <<"R","i","v","e","r","p","o","d">> >>),
       Pair(<<"c","o","m","p","l","e","x">>,
            << <<"B","L","o","C">>,
               <<"R","e","d","u","x">> >>) >>

\* The dict display in the body of the unit's selector function.
Literal(u) ==
    CASE u = "storage" -> storage_select
      [] u = "perf" -> perf_analyze
      [] u = "state" -> state_select

(***************************************************************************)
(* Python objects.  A list object holds its items; a dict object holds its *)
(* entries in insertion order, each a key and the address of its value.    *)
(***************************************************************************)
ListObj(items) == [type |-> "list", items |-> items, entries |-> <<>>]
DictObj(entries) == [type |-> "dict", items |-> <<>>, entries |-> entries]

Alloc(h, obj) == [heap |-> Append(h, obj), ref |-> Len(h) + 1]

HasKey(entries, k) == \E i \in DOMAIN entries : entries[i].key = k

\* d[k] = v: an existing key keeps its position and takes the new value,
\* a new key goes last.
DictSetItem(entries, k, v) ==
    IF HasKey(entries, k)
    THEN [i \in DOMAIN entries |->
            IF entries[i].key = k THEN [key |-> k, val |-> v] ELSE entries[i]]
    ELSE Append(entries, [key |-> k, val |-> v])

\* del d[k]
DictDelItem(entries, k) ==
    SelectSeq(entries, LAMBDA e : e.key # k)

\* Evaluation of the key/value pairs of a dict display, left to right: each
\* list display allocates a new list object.
RECURSIVE EvalPairs(_, _, _)
EvalPairs(h, pairs, entries) ==
    IF pairs = <<>>
    THEN [heap |-> h, entries |-> entries]
    ELSE LET a == Alloc(h, ListObj(Head(pairs).val))
         IN  EvalPairs(a.heap, Tail(pairs),
                       DictSetItem(entries, Head(pairs).key, a.ref))

FirstDict(h) ==
    CHOOSE a \in DOMAIN h :
        /\ h[a].type = "dict"
        /\ \A b \in 1..(a - 1) : h[b].type # "dict"

HasDict(h) == \E a \in DOMAIN h : h[a].type = "dict"

\* Faulty variant: the table is built once and the same object returned by every call.
DictDisplayCached(h, pairs) ==
    IF HasDict(h)
    THEN [heap |-> h, ref |-> FirstDict(h)]
    ELSE LET r == EvalPairs(h, pairs, <<>>) IN Alloc(r.heap, DictObj(r.entries))

\* Faulty variant: every call returns a new dict that is a shallow copy of one
\* module-level table, so the lists are shared.
DictDisplayShallow(h, pairs) ==
    IF HasDict(h)
    THEN Alloc(h, DictObj(EvalPairs(<<>>, pairs, <<>>).entries))
    ELSE LET r == EvalPairs(h, pairs, <<>>) IN Alloc(r.heap, DictObj(r.entries))

\* Evaluation of a dict display {k1: [..], k2: [..]}: new lists, new dict.
DictDisplay(h, pairs) ==
    LET r == EvalPairs(h, pairs, <<>>)
    IN  Alloc(r.heap, DictObj(r.entries))

\* The value of the table at address ref: its keys in order, each with the
\* items of its list.
Value(h, ref) ==
    [i \in DOMAIN h[ref].entries |->
        Pair(h[ref].entries[i].key, h[h[ref].entries[i].val].items)]

\* The addresses of the mutable objects a table consists of.
Parts(h, ref) ==
    {ref} \cup {h[ref].entries[i].val : i \in DOMAIN h[ref].entries}

(***************************************************************************)
(* json.dumps(obj, indent=n) for a dict of lists of str, as the encoder of *)
(* the json module produces it.                                            *)
(***************************************************************************)
RECURSIVE Spaces(_)
Spaces(n) == IF n <= 0 THEN <<>> ELSE <<" ">> \o Spaces(n - 1)

RECURSIVE Escape(_)
Escape(s) ==
    IF s = <<>> THEN <<>>
    ELSE (CASE Head(s) = "\"" -> <<"\\", "\"">>
            [] Head(s) = "\\" -> <<"\\", "\\">>
            [] Head(s) = "\n" -> <<"\\", "n">>
            [] OTHER -> <<Head(s)>>) \o Escape(Tail(s))

encode_basestring(s) == <<"\"">> \o Escape(s) \o <<"\"">>

NewlineIndent(indent, level) == <<"\n">> \o Spaces(indent * level)

RECURSIVE JoinStrings(_, _)
JoinStrings(items, sep) ==
    IF items = <<>> THEN <<>>
    ELSE IF Len(items) = 1 THEN encode_basestring(items[1])
    ELSE encode_basestring(Head(items)) \o sep \o JoinStrings(Tail(items), sep)

iterencode_list(items, indent, level) ==
    IF items = <<>> THEN <<"[", "]">>
    ELSE <<"[">> \o NewlineIndent(indent, level + 1)
         \o JoinStrings(items, <<",">> \o NewlineIndent(indent, level + 1))
         \o NewlineIndent(indent, level) \o <<"]">>

RECURSIVE JoinItems(_, _, _)
JoinItems(pairs, indent, level) ==
    IF pairs = <<>> THEN <<>>
    ELSE encode_basestring(Head(pairs).key) \o <<":", " ">>
         \o iterencode_list(Head(pairs).val, indent, level)
         \o (IF Len(pairs) = 1 THEN <<>>
             ELSE <<",">> \o NewlineIndent(indent, level)
                  \o JoinItems(Tail(pairs), indent, level))

iterencode_dict(pairs, indent, level) ==
    IF pairs = <<>> THEN <<"{", "}">>
    ELSE <<"{">> \o NewlineIndent(indent, level + 1)
         \o JoinItems(pairs, indent, level + 1)
         \o NewlineIndent(indent, level) \o <<"}">>

\* The repr() of the table: what print(select()) would write.
RECURSIVE ReprStrings(_)
ReprStrings(items) ==
    IF items = <<>> THEN <<>>
    ELSE <<"'">> \o Head(items) \o <<"'">>
         \o (IF Len(items) = 1 THEN <<>> ELSE <<",", " ">> \o ReprStrings(Tail(items)))

RECURSIVE ReprItems(_)
ReprItems(pairs) ==
    IF pairs = <<>> THEN <<>>
    ELSE <<"'">> \o Head(pairs).key \o <<"'", ":", " ", "[">>
         \o ReprStrings(Head(pairs).val) \o <<"]">>
         \o (IF Len(pairs) = 1 THEN <<>> ELSE <<",", " ">> \o ReprItems(Tail(pairs)))

\* Faulty variant: the table is printed as Python prints it, not as JSON.
py_repr(v, indent) == <<"{">> \o ReprItems(v) \o <<"}">>

\* Faulty variant: a different indentation width.
json_dumps_wide(v, indent) == iterencode_dict(v, indent + indent, 0)

json_dumps(v, indent) == iterencode_dict(v, indent, 0)

\* print(text): the text, then a newline.
print(out, text) == out \o text \o <<"\n">>

(***************************************************************************)
(* json.loads(text) for documents that are an object of arrays of strings; *)
(* any other text is rejected.  Positions are 1-based indices into text.   *)
(***************************************************************************)
At(t, i) == IF i \in 1..Len(t) THEN t[i] ELSE "EOF"

IsWs(c) == c \in {" ", "\n", "\t", "\r"}

RECURSIVE SkipWs(_, _)
SkipWs(t, i) == IF IsWs(At(t, i)) THEN SkipWs(t, i + 1) ELSE i

Fail == [ok |-> FALSE, val |-> <<>>, next |-> 0]
Done(v, n) == [ok |-> TRUE, val |-> v, next |-> n]

\* i is the position after the opening quote.
RECURSIVE ScanString(_, _, _)
ScanString(t, i, acc) ==
    CASE At(t, i) = "EOF" -> Fail
      [] At(t, i) = "\"" -> Done(acc, i + 1)
      [] At(t, i) = "\n" -> Fail
      [] At(t, i) = "\\" ->
            (CASE At(t, i + 1) \in {"\"", "\\", "/"} ->
                      ScanString(t, i + 2, Append(acc, At(t, i + 1)))
               [] At(t, i + 1) = "n" -> ScanString(t, i + 2, Append(acc, "\n"))
               [] OTHER -> Fail)
      [] OTHER -> ScanString(t, i + 1, Append(acc, At(t, i)))

\* j is the position of the next item of the array.
RECURSIVE ArrayItems(_, _, _)
ArrayItems(t, j, acc) ==
    IF At(t, j) # "\"" THEN Fail
    ELSE LET s == ScanString(t, j + 1, <<>>)
             k == SkipWs(t, s.next)
         IN  IF ~s.ok THEN Fail
             ELSE CASE At(t, k) = "]" -> Done(Append(acc, s.val), k + 1)
                    [] At(t, k) = "," ->
                          ArrayItems(t, SkipWs(t, k + 1), Append(acc, s.val))
                    [] OTHER -> Fail

\* i is the position after the opening bracket.
ParseArray(t, i) ==
    LET j == SkipWs(t, i)
    IN  IF At(t, j) = "]" THEN Done(<<>>, j + 1) ELSE ArrayItems(t, j, <<>>)

\* j is the position of the next key of the object.
RECURSIVE ObjectItems(_, _, _)
ObjectItems(t, j, acc) ==
    IF At(t, j) # "\"" THEN Fail
    ELSE LET s == ScanString(t, j + 1, <<>>)
             c == SkipWs(t, s.next)
             b == SkipWs(t, c + 1)
             a == ParseArray(t, b + 1)
             m == SkipWs(t, a.next)
         IN  IF ~s.ok \/ At(t, c) # ":" \/ At(t, b) # "[" THEN Fail
             ELSE IF ~a.ok THEN Fail
             ELSE CASE At(t, m) = "}" -> Done(DictSetItem(acc, s.val, a.val), m + 1)
                    [] At(t, m) = "," ->
                          ObjectItems(t, SkipWs(t, m + 1),
                                      DictSetItem(acc, s.val, a.val))
                    [] OTHER -> Fail

ParseObject(t, i) ==
    LET j == SkipWs(t, i)
    IN  IF At(t, j) = "}" THEN Done(<<>>, j + 1) ELSE ObjectItems(t, j, <<>>)

json_loads(t) ==
    LET j == SkipWs(t, 1)
        r == ParseObject(t, j + 1)
    IN  IF At(t, j) # "{" THEN Fail
        ELSE IF r.ok /\ SkipWs(t, r.next) = Len(t) + 1 THEN r
        ELSE Fail

(***************************************************************************)
(* The process.                                                            *)
(***************************************************************************)
DumpsIndent == 2

\* if __name__ == "__main__"
IsMainAlways(n) == TRUE

IsMain(n) == n = "__main__"

\* Faulty variant: the indentation is taken from the command line.
EntryPointTextArgv(v, av, ev) ==
    json_dumps(v, IF av = <<>> THEN DumpsIndent ELSE DumpsIndent + DumpsIndent)

\* The text the entry point hands to print() for table v, in a process
\* started with arguments av and environment ev.
EntryPointText(v, av, ev) == json_dumps(v, DumpsIndent)

NoRun == [unit |-> "none", argv |-> <<>>, env |-> "default", out |-> <<>>]

Init ==
    /\ unit \in Units
    /\ \/ /\ name = "__main__"
          /\ argv \in Argvs
          /\ env \in Envs
       \/ /\ name = ModuleName(unit)
          /\ argv = <<>>
          /\ env = "default"
    /\ pc = "start"
    /\ heap = <<>>
    /\ returned = <<>>
    /\ mutated = {}
    /\ nmut = 0
    /\ stdout = <<>>
    /\ prints = 0
    /\ exitcode = -1
    /\ prev = NoRun

\* A call of the unit's selector function: evaluates the dict display and
\* returns the new table.
CallSelector ==
    LET r == DictDisplay(heap, Literal(unit))
    IN  /\ heap' = r.heap
        /\ returned' = Append(returned,
                              [ref |-> r.ref, value |-> Value(r.heap, r.ref),
                               after |-> nmut])

\* Lines 1-4: the docstring, import json, and the def statement.
LoadModule ==
    /\ pc = "start"
    /\ pc' = "guard"
    /\ UNCHANGED <<unit, name, argv, env, heap, returned, mutated, nmut,
                   stdout, prints, exitcode, prev>>

\* Line 5, the guard holds: the selector is called.
MainCallSelect ==
    /\ pc = "guard"
    /\ IsMain(name)
    /\ CallSelector
    /\ pc' = "print"
    /\ UNCHANGED <<unit, name, argv, env, mutated, nmut, stdout, prints,
                   exitcode, prev>>

\* Line 5: print(json.dumps(<table>, indent=2)).
MainPrint ==
    /\ pc = "print"
    /\ stdout' = print(stdout,
                       EntryPointText(Value(heap, returned[Len(returned)].ref),
                                      argv, env))
    /\ prints' = prints + 1
    /\ pc' = "end"
    /\ UNCHANGED <<unit, name, argv, env, heap, returned, mutated, nmut,
                   exitcode, prev>>

\* The script ends: the interpreter exits with status 0.
MainExit ==
    /\ pc = "end"
    /\ exitcode' = 0
    /\ pc' = "exited"
    /\ UNCHANGED <<unit, name, argv, env, heap, returned, mutated, nmut,
                   stdout, prints, prev>>

\* Line 5, the guard fails: the import completes and nothing else runs.
ImportDone ==
    /\ pc = "guard"
    /\ ~IsMain(name)
    /\ pc' = "imported"
    /\ UNCHANGED <<unit, name, argv, env, heap, returned, mutated, nmut,
                   stdout, prints, exitcode, prev>>

\* The importing program calls the selector.
ImporterCall ==
    /\ pc = "imported"
    /\ Len(returned) < MaxCalls
    /\ CallSelector
    /\ UNCHANGED <<unit, name, argv, env, pc, mutated, nmut, stdout, prints,
                   exitcode, prev>>

NewLabels == {<<"x">>}

Mutation(i, h) ==
    /\ pc = "imported"
    /\ nmut < MaxMutations
    /\ heap' = h
    /\ mutated' = mutated \cup {i}
    /\ nmut' = nmut + 1
    /\ UNCHANGED <<unit, name, argv, env, pc, returned, stdout, prints,
                   exitcode, prev>>

Keys(h, ref) == {h[ref].entries[i].key : i \in DOMAIN h[ref].entries}

ListOf(h, ref, k) ==
    h[ref].entries[CHOOSE i \in DOMAIN h[ref].entries : h[ref].entries[i].key = k].val

\* t[k] = [s] on a table the caller holds: k an existing or a new key.
ImporterSetItem ==
    \E i \in DOMAIN returned :
      \E k \in Keys(heap, returned[i].ref) \cup NewLabels, s \in NewLabels :
        LET t == returned[i].ref
            a == Alloc(heap, ListObj(<<s>>))
        IN  Mutation(i, [a.heap EXCEPT
                           ![t].entries = DictSetItem(@, k, a.ref)])

\* del t[k]
ImporterDelItem ==
    \E i \in DOMAIN returned :
      \E k \in Keys(heap, returned[i].ref) :
        LET t == returned[i].ref
        IN  Mutation(i, [heap EXCEPT ![t].entries = DictDelItem(@, k)])

\* t[k][n] = s
ImporterListSet ==
    \E i \in DOMAIN returned :
      \E k \in Keys(heap, returned[i].ref), s \in NewLabels :
        LET l == ListOf(heap, returned[i].ref, k)
        IN  \E n \in DOMAIN heap[l].items :
              Mutation(i, [heap EXCEPT ![l].items[n] = s])

\* t[k].append(s)
ImporterListAppend ==
    \E i \in DOMAIN returned :
      \E k \in Keys(heap, returned[i].ref), s \in NewLabels :
        LET l == ListOf(heap, returned[i].ref, k)
        IN  Mutation(i, [heap EXCEPT ![l].items = Append(@, s)])

\* t[k].pop()
ImporterListPop ==
    \E i \in DOMAIN returned :
      \E k \in Keys(heap, returned[i].ref) :
        LET l == ListOf(heap, returned[i].ref, k)
        IN  /\ heap[l].items # <<>>
            /\ Mutation(i, [heap EXCEPT
                              ![l].items = SubSeq(@, 1, Len(@) - 1)])

\* The importing program ends.
ImporterExit ==
    /\ pc = "imported"
    /\ exitcode' = 0
    /\ pc' = "exited"
    /\ UNCHANGED <<unit, name, argv, env, heap, returned, mutated, nmut,
                   stdout, prints, prev>>

\* The unit is run as a standalone program once more, with any arguments and
\* environment.  Nothing of the old process survives; the output of the
\* finished direct run is remembered for comparison.
RunAgain ==
    /\ pc = "exited"
    /\ unit' \in Units
    /\ name' = "__main__"
    /\ argv' \in Argvs
    /\ env' \in Envs
    /\ pc' = "start"
    /\ heap' = <<>>
    /\ returned' = <<>>
    /\ mutated' = {}
    /\ nmut' = 0
    /\ stdout' = <<>>
    /\ prints' = 0
    /\ exitcode' = -1
    /\ prev' = IF name = "__main__"
               THEN [unit |-> unit, argv |-> argv, env |-> env, out |-> stdout]
               ELSE prev

Next ==
    \/ LoadModule
    \/ MainCallSelect
    \/ MainPrint
    \/ MainExit
    \/ ImportDone
    \/ ImporterCall
    \/ ImporterSetItem
    \/ ImporterDelItem
    \/ ImporterListSet
    \/ ImporterListAppend
    \/ ImporterListPop
    \/ ImporterExit
    \/ RunAgain

Spec == Init /\ [][Next]_vars

(***************************************************************************)
(* Properties.                                                             *)
(***************************************************************************)
\* The Python str a character sequence spells.
RECURSIVE Str(_)
Str(cs) == IF cs = <<>> THEN "" ELSE Head(cs) \o Str(Tail(cs))

StrTable(v) ==
    [i \in DOMAIN v |->
        [key |-> Str(v[i].key),
         val |-> [j \in DOMAIN v[i].val |-> Str(v[i].val[j])]]]

DirectRunOver == name = "__main__" /\ pc \in {"end", "exited"}

\* C1: every call of the storage unit's select() returns the table with keys
\* "local", "cloud" in that order, local = <shared_prefs, hive, sqflite> and
\* cloud = <firestore, supabase>, and nothing else.
C1_StorageTable ==
    unit = "storage" =>
        \A i \in DOMAIN returned :
            StrTable(returned[i].value) =
                << [key |-> "local", val |-> <<"shared_prefs", "hive", "sqflite">>],
                   [key |-> "cloud", val |-> <<"firestore", "supabase">>] >>

C1_Witness == unit = "storage" /\ Len(returned) >= 1 /\ pc = "imported"

\* C2: every call of the performance unit's analyze() returns the table with
\* keys "metrics", "tools" in that order, metrics = <fps, memory, startup,
\* size> and tools = <devtools, firebase_perf>, and nothing else.
C2_PerfTable ==
    unit = "perf" =>
        \A i \in DOMAIN returned :
            StrTable(returned[i].value) =
                << [key |-> "metrics", val |-> <<"fps", "memory", "startup", "size">>],
                   [key |-> "tools", val |-> <<"devtools", "firebase_perf">>] >>

C2_Witness == unit = "perf" /\ Len(returned) >= 1 /\ pc = "imported"

\* C3: every call of the state-management unit's select() returns the table
\* with keys "simple", "medium", "complex" in that order, simple = <setState,
\* ValueNotifier>, medium = <Provider, Riverpod>, complex = <BLoC, Redux>.
C3_StateTable ==
    unit = "state" =>
        \A i \in DOMAIN returned :
            StrTable(returned[i].value) =
                << [key |-> "simple", val |-> <<"setState", "ValueNotifier">>],
                   [key |-> "medium", val |-> <<"Provider", "Riverpod">>],
                   [key |-> "complex", val |-> <<"BLoC", "Redux">>] >>

C3_Witness == unit = "state" /\ Len(returned) >= 1 /\ pc = "imported"

\* The lines of a text: the strings between newlines, and what follows the
\* last newline.
RECURSIVE NextNewline(_, _)
NextNewline(t, i) ==
    IF i > Len(t) \/ t[i] = "\n" THEN i ELSE NextNewline(t, i + 1)

RECURSIVE SplitLines(_, _)
SplitLines(t, i) ==
    LET j == NextNewline(t, i)
    IN  IF j > Len(t)
        THEN [lines |-> <<>>, rest |-> Str(SubSeq(t, i, Len(t)))]
        ELSE LET r == SplitLines(t, j + 1)
             IN  [lines |-> <<Str(SubSeq(t, i, j - 1))>> \o r.lines,
                  rest |-> r.rest]

ItemLines(items) ==
    [j \in DOMAIN items |->
        "    \"" \o Str(items[j]) \o "\"" \o (IF j < Len(items) THEN "," ELSE "")]

RECURSIVE KeyLines(_)
KeyLines(v) ==
    IF v = <<>> THEN <<>>
    ELSE <<"  \"" \o Str(Head(v).key) \o "\": [">>
         \o ItemLines(Head(v).val)
         \o <<IF Len(v) > 1 THEN "  ]," ELSE "  ]">>
         \o KeyLines(Tail(v))

PrettyLines(v) == <<"{">> \o KeyLines(v) \o <<"}">>

StorageExample ==
    << "{",
       "  \"local\": [",
       "    \"shared_prefs\",",
       "    \"hive\",",
       "    \"sqflite\"",
       "  ],",
       "  \"cloud\": [",
       "    \"firestore\",",
       "    \"supabase\"",
       "  ]",
       "}" >>

\* C4: a direct run writes one JSON object, two-space indented, keys in the
\* literal's order and items in sequence order, then one newline and nothing
\* else; the storage unit's output is line for line the documented example.
C4_PrettyOutput ==
    DirectRunOver =>
        LET s == SplitLines(stdout, 1)
        IN  /\ s.rest = ""
            /\ s.lines = PrettyLines(Literal(unit))
            /\ unit = "storage" => s.lines = StorageExample

C4_Witness == DirectRunOver /\ unit = "storage" /\ pc = "exited" /\ stdout # <<>>

\* C5: the standard output of a direct run parses as JSON to a table equal to
\* the one the selector returned.
C5_RoundTrip ==
    DirectRunOver =>
        LET r == json_loads(stdout)
        IN  r.ok /\ r.val = returned[1].value

C5_Witness == DirectRunOver /\ unit = "state" /\ pc = "exited" /\ stdout # <<>>

\* C6: any two selector calls in one process return equal tables, whatever
\* happened between them.
C6_Deterministic ==
    \A i, j \in DOMAIN returned : returned[i].value = returned[j].value

C6_Witness ==
    \E i, j \in DOMAIN returned :
        /\ i < j
        /\ returned[i].after < returned[j].after
        /\ i \in mutated

\* C7: two direct runs of the same unit write the same bytes, whatever the
\* arguments and environment of either.
C7_SameBytes ==
    (DirectRunOver /\ prev.unit = unit) => stdout = prev.out

C7_Witness ==
    /\ DirectRunOver
    /\ pc = "exited"
    /\ prev.unit = unit
    /\ prev.argv # argv
    /\ prev.env # env
    /\ stdout # <<>>

\* C8: in every returned table the keys are pairwise distinct, every value is
\* a non-empty sequence and every entry of it is non-empty text.
C8_WellFormed ==
    \A i \in DOMAIN returned :
        LET v == returned[i].value
        IN  /\ \A a, b \in DOMAIN v : a # b => v[a].key # v[b].key
            /\ \A a \in DOMAIN v :
                  /\ v[a].val # <<>>
                  /\ \A j \in DOMAIN v[a].val : Str(v[a].val[j]) # ""

C8_Witness == unit = "perf" /\ Len(returned) = MaxCalls

\* C9: the tables of different calls share no dict and no list; every call
\* returns the literal whatever callers did to earlier tables, and a table
\* its holder has not mutated still has the value it was returned with.
C9_FreshTables ==
    /\ \A i, j \in DOMAIN returned :
          i # j => Parts(heap, returned[i].ref) \cap Parts(heap, returned[j].ref) = {}
    /\ \A i \in DOMAIN returned : returned[i].value = Literal(unit)
    /\ \A i \in DOMAIN returned :
          i \notin mutated => Value(heap, returned[i].ref) = returned[i].value

C9_Witness ==
    \E i, j, k \in DOMAIN returned :
        /\ i \in mutated /\ j \notin mutated /\ k \notin mutated
        /\ Value(heap, returned[i].ref) # returned[i].value
        /\ returned[j].after = 0
        /\ returned[k].after > 0

\* C10: an importing process writes nothing to standard output however often
\* it calls the selector; a direct run calls the selector once, prints once
\* and exits with status 0.
C10_OnlyEntryPointPrints ==
    /\ name # "__main__" => stdout = <<>> /\ prints = 0
    /\ name = "__main__" => Len(returned) <= 1 /\ prints <= Len(returned)
    /\ (name = "__main__" /\ pc = "exited") =>
          Len(returned) = 1 /\ prints = 1 /\ exitcode = 0 /\ stdout # <<>>

C10_Witness ==
    /\ prev.unit # "none"
    /\ prev.out # <<>>
    /\ name = "__main__"
    /\ Len(returned) = 1
    /\ prints = 1
    /\ pc = "exited"

====
